---------------------------- MODULE Spec2Model ----------------------------
(***************************************************************************)
(* HashGuardian (hasher.py): digests of text, labelled digest snapshots    *)
(* kept in one JSON file (the vault), and verification of a text against   *)
(* its snapshot.                                                           *)
(*                                                                         *)
(* A text is a sequence of Unicode scalar values (code points); a lone     *)
(* surrogate, which str.encode("utf-8") rejects, is outside the model.     *)
(* The vault is a Python dict, modelled with its insertion order as a      *)
(* sequence of [key, value] items.  The file is absent, or holds a JSON    *)
(* document, or holds bytes that json.load cannot parse.                   *)
(***************************************************************************)
EXTENDS Integers, Sequences, FiniteSets, TLC

VARIABLES
    vaultFile,  \* content of the file named VAULT_FILE, or NoFile
    ret,        \* the last call: operation, arguments, exception or value
    io,         \* the file-system calls the last call made, in order
    lastSave,   \* history: per label, the save its current record comes from
    procs,      \* per concurrent process: its save_hash call, step by step
    persisted   \* history: the document of the latest save_vault completed

vars == <<vaultFile, ret, io, lastSave, procs, persisted>>

-----------------------------------------------------------------------------
(* Bounds and input sets *)

MaxDigestTextLen == 2 \* texts of the digest engine's specification
MaxTime == 1          \* the local clock reads 0..MaxTime

\* one 1-byte and one 2-byte character of UTF-8: "a" and "e with acute"
Chars == {97, 233}

RECURSIVE TextsOfLen(_)
TextsOfLen(n) ==
    IF n = 0 THEN {<<>>}
    ELSE {Append(t, c) : t \in TextsOfLen(n - 1), c \in Chars}

TextsUpTo(n) == UNION {TextsOfLen(k) : k \in 0..n}

\* texts of the store operations: empty, or one character
Texts == TextsOfLen(0) \cup TextsOfLen(1)
\* texts that are saved: empty, or the 2-byte character
SaveTexts == {<<>>, <<233>>}
\* first text of compare_texts beside the store operations
CompareTexts1 == {<<97>>}
DigestTexts == TextsUpTo(MaxDigestTextLen)

Labels == {"", "doc"}
Times == 0..MaxTime

ALGORITHMS == <<"md5", "sha1", "sha256", "sha512">>
AlgorithmSet == {ALGORITHMS[i] : i \in DOMAIN ALGORITHMS}
\* what a caller may pass as algorithm: the supported names and two others
AlgorithmInputs == AlgorithmSet \cup {"fakehash", "SHA256"}
\* ... to save_hash, and to compare_texts beside the store operations
SaveAlgorithmInputs == AlgorithmSet \cup {"fakehash"}
CompareAlgorithmInputs == {"sha256", "fakehash"}

\* Python values that are not records, as records: any two values of the
\* model can then be told apart
None == [py |-> "None"]
PyBool(b) == [bool |-> b]
PyList(items) == [list |-> items]
PyDict(items) == [dict |-> items]
NoArgs == [args |-> "none"]
NoAlgorithm == ""
NoFile == [kind |-> "absent"]
Garbage == [kind |-> "garbage"]
NoException == "none"

-----------------------------------------------------------------------------
(* Python dict with insertion order *)

DictKeys(d) == {d[i].key : i \in DOMAIN d}
DictHas(d, k) == \E i \in DOMAIN d : d[i].key = k
DictIndex(d, k) == CHOOSE i \in DOMAIN d : d[i].key = k
DictGet(d, k) == d[DictIndex(d, k)].value
DictValues(d) == [i \in DOMAIN d |-> d[i].value]

\* DictSet gone wrong: the dict is built anew from the one item
DictSet_fresh(d, k, v) == <<[key |-> k, value |-> v]>>

\* DictSet gone wrong: the item is appended, as to a list of items
DictSet_append(d, k, v) == Append(d, [key |-> k, value |-> v])

\* d[k] = v: a present key keeps its position, a new key goes last
DictSet(d, k, v) ==
    IF DictHas(d, k)
    THEN [i \in DOMAIN d |-> IF d[i].key = k THEN [key |-> k, value |-> v] ELSE d[i]]
    ELSE Append(d, [key |-> k, value |-> v])

\* DictDel gone wrong: the oldest item goes, whatever its key (a popitem)
DictDel_first(d, k) == Tail(d)

\* del d[k]
DictDel(d, k) == SelectSeq(d, LAMBDA item : item.key # k)

-----------------------------------------------------------------------------
(* Digest engine *)

\* EncodeChar gone wrong: encode("ascii", "ignore") drops what is not ASCII
EncodeChar_ascii_ignore(c) == IF c < 128 THEN <<c>> ELSE <<>>

\* str.encode("utf-8") of one character
EncodeChar(c) ==
    IF c < 128 THEN <<c>>
    ELSE <<192 + (c \div 64), 128 + (c % 64)>>

RECURSIVE Utf8(_)
Utf8(text) ==
    IF text = <<>> THEN <<>>
    ELSE EncodeChar(Head(text)) \o Utf8(Tail(text))

\* hex digits of the digest of each hashlib algorithm
HexLen(algorithm) ==
    CASE algorithm = "md5" -> 32
      [] algorithm = "sha1" -> 40
      [] algorithm = "sha256" -> 64
      [] algorithm = "sha512" -> 128

\* hashlib.new(algorithm).update(bytes).hexdigest(), collision-free: a hex
\* string of the algorithm's length that names the bytes digested
HexDigest(algorithm, bytes) == [hexlen |-> HexLen(algorithm), of |-> bytes]

\* compute_hash gone wrong: h.update is left out
compute_hash_no_update(text, algorithm) ==
    IF algorithm \notin AlgorithmSet
    THEN [raised |-> "ValueError", value |-> None]
    ELSE [raised |-> NoException, value |-> HexDigest(algorithm, <<>>)]

\* compute_hash gone wrong: the list it checks against lacks the last algorithm
compute_hash_short_list(text, algorithm) ==
    IF algorithm \notin {ALGORITHMS[i] : i \in 1..(Len(ALGORITHMS) - 1)}
    THEN [raised |-> "ValueError", value |-> None]
    ELSE [raised |-> NoException, value |-> HexDigest(algorithm, Utf8(text))]

compute_hash(text, algorithm) ==
    IF algorithm \notin AlgorithmSet
    THEN [raised |-> "ValueError", value |-> None]
    ELSE [raised |-> NoException, value |-> HexDigest(algorithm, Utf8(text))]

\* a dict comprehension over the list ALGORITHMS, in its order
compute_all_hashes(text) ==
    [i \in DOMAIN ALGORITHMS |->
        [key |-> ALGORITHMS[i], value |-> compute_hash(text, ALGORITHMS[i]).value]]

-----------------------------------------------------------------------------
(* Snapshot store: the whole file is read, the whole file is rewritten *)

\* json.dump(vault, f): the document json.load reads back as the same dict
json_dump(vault) == [kind |-> "json", obj |-> vault]

\* json.load(f)
json_load(content) ==
    IF content.kind = "json"
    THEN [raised |-> NoException, value |-> content.obj]
    ELSE [raised |-> "JSONDecodeError", value |-> None]

\* load_vault gone wrong: the file is opened without asking whether it exists
load_vault_no_exists(file) ==
    IF file.kind # "absent"
    THEN LET parsed == json_load(file)
         IN  [raised |-> parsed.raised, value |-> parsed.value, io |-> <<"open_r">>]
    ELSE [raised |-> "FileNotFoundError", value |-> None, io |-> <<"open_r">>]

\* load_vault gone wrong: an unparsable file is taken for an empty vault
load_vault_recovering(file) ==
    IF file.kind # "absent"
    THEN LET parsed == json_load(file)
         IN  [raised |-> NoException,
              value |-> IF parsed.raised = NoException THEN parsed.value ELSE <<>>,
              io |-> <<"exists", "open_r">>]
    ELSE [raised |-> NoException, value |-> <<>>, io |-> <<"exists">>]

\* Path(VAULT_FILE).exists(), then open(VAULT_FILE, "r") and json.load
load_vault(file) ==
    IF file.kind # "absent"
    THEN LET parsed == json_load(file)
         IN  [raised |-> parsed.raised, value |-> parsed.value,
              io |-> <<"exists", "open_r">>]
    ELSE [raised |-> NoException, value |-> <<>>, io |-> <<"exists">>]

\* open(VAULT_FILE, "w") and json.dump
save_vault(vault) == [file |-> json_dump(vault), io |-> <<"open_w">>]

-----------------------------------------------------------------------------
(* Snapshot / verification service.  Each operation maps the file and its  *)
(* arguments to the exception raised or the value returned, the file       *)
(* afterwards and the file-system calls made.                              *)

Raise(exc, file, calls) ==
    [raised |-> exc, value |-> None, file |-> file, io |-> calls]

Return(value, file, calls) ==
    [raised |-> NoException, value |-> value, file |-> file, io |-> calls]

\* save_hash gone wrong: the length recorded is the byte count of the encoded text
save_hash_byte_length(file, label, text, algorithm, now) ==
    LET loaded == load_vault(file)
        hashed == compute_hash(text, algorithm)
        entry == [label |-> label,
                  algorithm |-> algorithm,
                  hash |-> hashed.value,
                  length |-> Len(Utf8(text)),
                  timestamp |-> now]
        saved == save_vault(DictSet(loaded.value, label, entry))
    IN  IF loaded.raised # NoException THEN Raise(loaded.raised, file, loaded.io)
        ELSE IF hashed.raised # NoException THEN Raise(hashed.raised, file, loaded.io)
        ELSE Return(entry, saved.file, loaded.io \o saved.io)

\* save_hash gone wrong: the vault is written back before the text is hashed
save_hash_writing_first(file, label, text, algorithm, now) ==
    LET loaded == load_vault(file)
        rewritten == save_vault(loaded.value)
        hashed == compute_hash(text, algorithm)
        entry == [label |-> label,
                  algorithm |-> algorithm,
                  hash |-> hashed.value,
                  length |-> Len(text),
                  timestamp |-> now]
        saved == save_vault(DictSet(loaded.value, label, entry))
    IN  IF loaded.raised # NoException THEN Raise(loaded.raised, file, loaded.io)
        ELSE IF hashed.raised # NoException
        THEN Raise(hashed.raised, rewritten.file, loaded.io \o rewritten.io)
        ELSE Return(entry, saved.file, loaded.io \o rewritten.io \o saved.io)

\* save_hash gone wrong: every record of the vault is stamped with the time of the save
save_hash_restamping(file, label, text, algorithm, now) ==
    LET loaded == load_vault(file)
        hashed == compute_hash(text, algorithm)
        entry == [label |-> label,
                  algorithm |-> algorithm,
                  hash |-> hashed.value,
                  length |-> Len(text),
                  timestamp |-> now]
        restamped == [i \in DOMAIN loaded.value |->
                        [key |-> loaded.value[i].key,
                         value |-> [loaded.value[i].value EXCEPT !.timestamp = now]]]
        saved == save_vault(DictSet(restamped, label, entry))
    IN  IF loaded.raised # NoException THEN Raise(loaded.raised, file, loaded.io)
        ELSE IF hashed.raised # NoException THEN Raise(hashed.raised, file, loaded.io)
        ELSE Return(entry, saved.file, loaded.io \o saved.io)

\* save_hash gone wrong: the entry is stored under the literal key "label"
save_hash_literal_key(file, label, text, algorithm, now) ==
    LET loaded == load_vault(file)
        hashed == compute_hash(text, algorithm)
        entry == [label |-> label,
                  algorithm |-> algorithm,
                  hash |-> hashed.value,
                  length |-> Len(text),
                  timestamp |-> now]
        saved == save_vault(DictSet(loaded.value, "label", entry))
    IN  IF loaded.raised # NoException THEN Raise(loaded.raised, file, loaded.io)
        ELSE IF hashed.raised # NoException THEN Raise(hashed.raised, file, loaded.io)
        ELSE Return(entry, saved.file, loaded.io \o saved.io)

save_hash(file, label, text, algorithm, now) ==
    LET loaded == load_vault(file)
        hashed == compute_hash(text, algorithm)
        entry == [label |-> label,
                  algorithm |-> algorithm,
                  hash |-> hashed.value,
                  length |-> Len(text),
                  timestamp |-> now]
        saved == save_vault(DictSet(loaded.value, label, entry))
    IN  IF loaded.raised # NoException THEN Raise(loaded.raised, file, loaded.io)
        ELSE IF hashed.raised # NoException THEN Raise(hashed.raised, file, loaded.io)
        ELSE Return(entry, saved.file, loaded.io \o saved.io)

\* verify_entry gone wrong: the current text is hashed with the default algorithm
verify_entry_default_algorithm(label, entry, text) ==
    LET hashed == compute_hash(text, "sha256")
        current_hash == hashed.value
        original_hash == entry.hash
        is_intact == current_hash = original_hash
    IN  [raised |-> NoException,
         value |-> [status |-> IF is_intact THEN "INTACT" ELSE "MODIFIED",
                    label |-> label,
                    algorithm |-> entry.algorithm,
                    original_hash |-> original_hash,
                    current_hash |-> current_hash,
                    original_length |-> entry.length,
                    current_length |-> Len(text),
                    saved_at |-> entry.timestamp,
                    is_intact |-> is_intact]]

\* verify_text once the label's entry is found
verify_entry(label, entry, text) ==
    LET hashed == compute_hash(text, entry.algorithm)
        current_hash == hashed.value
        original_hash == entry.hash
        is_intact == current_hash = original_hash
    IN  IF hashed.raised # NoException
        THEN [raised |-> hashed.raised, value |-> None]
        ELSE [raised |-> NoException,
              value |-> [status |-> IF is_intact THEN "INTACT" ELSE "MODIFIED",
                         label |-> label,
                         algorithm |-> entry.algorithm,
                         original_hash |-> original_hash,
                         current_hash |-> current_hash,
                         original_length |-> entry.length,
                         current_length |-> Len(text),
                         saved_at |-> entry.timestamp,
                         is_intact |-> is_intact]]

\* verify_text gone wrong: the text is hashed although the label has no entry
verify_text_hashing_absent(file, label, text) ==
    LET loaded == load_vault(file)
        verified == verify_entry(label, DictGet(loaded.value, label), text)
    IN  IF loaded.raised # NoException THEN Raise(loaded.raised, file, loaded.io)
        ELSE IF ~DictHas(loaded.value, label)
        THEN Return([status |-> "NOT_FOUND",
                     message |-> <<"No snapshot found for label", label>>,
                     current_hash |-> compute_hash(text, "sha256").value],
                    file, loaded.io)
        ELSE IF verified.raised # NoException
        THEN Raise(verified.raised, file, loaded.io)
        ELSE Return(verified.value, file, loaded.io)

verify_text(file, label, text) ==
    LET loaded == load_vault(file)
        verified == verify_entry(label, DictGet(loaded.value, label), text)
    IN  IF loaded.raised # NoException THEN Raise(loaded.raised, file, loaded.io)
        ELSE IF ~DictHas(loaded.value, label)
        THEN Return([status |-> "NOT_FOUND",
                     message |-> <<"No snapshot found for label", label>>],
                    file, loaded.io)
        ELSE IF verified.raised # NoException
        THEN Raise(verified.raised, file, loaded.io)
        ELSE Return(verified.value, file, loaded.io)

\* compare_texts gone wrong: it loads the vault before it compares
compare_texts_loading(file, text1, text2, algorithm) ==
    LET loaded == load_vault(file)
        hash1 == compute_hash(text1, algorithm)
        hash2 == compute_hash(text2, algorithm)
    IN  IF loaded.raised # NoException THEN Raise(loaded.raised, file, loaded.io)
        ELSE IF hash1.raised # NoException THEN Raise(hash1.raised, file, loaded.io)
        ELSE IF hash2.raised # NoException THEN Raise(hash2.raised, file, loaded.io)
        ELSE Return([algorithm |-> algorithm,
                     hash_1 |-> hash1.value,
                     hash_2 |-> hash2.value,
                     identical |-> hash1.value = hash2.value,
                     length_1 |-> Len(text1),
                     length_2 |-> Len(text2)],
                    file, loaded.io)

compare_texts(file, text1, text2, algorithm) ==
    LET hash1 == compute_hash(text1, algorithm)
        hash2 == compute_hash(text2, algorithm)
    IN  IF hash1.raised # NoException THEN Raise(hash1.raised, file, <<>>)
        ELSE IF hash2.raised # NoException THEN Raise(hash2.raised, file, <<>>)
        ELSE Return([algorithm |-> algorithm,
                     hash_1 |-> hash1.value,
                     hash_2 |-> hash2.value,
                     identical |-> hash1.value = hash2.value,
                     length_1 |-> Len(text1),
                     length_2 |-> Len(text2)],
                    file, <<>>)

\* list_snapshots gone wrong: the vault it loaded is written back
list_snapshots_saving(file) ==
    LET loaded == load_vault(file)
        saved == save_vault(loaded.value)
    IN  IF loaded.raised # NoException THEN Raise(loaded.raised, file, loaded.io)
        ELSE Return(PyList(DictValues(loaded.value)), saved.file,
                    loaded.io \o saved.io)

list_snapshots(file) ==
    LET loaded == load_vault(file)
    IN  IF loaded.raised # NoException THEN Raise(loaded.raised, file, loaded.io)
        ELSE Return(PyList(DictValues(loaded.value)), file, loaded.io)

\* delete_snapshot gone wrong: the vault is saved whether or not the label was found
delete_snapshot_always_saves(file, label) ==
    LET loaded == load_vault(file)
        saved == save_vault(DictDel(loaded.value, label))
    IN  IF loaded.raised # NoException THEN Raise(loaded.raised, file, loaded.io)
        ELSE Return(PyBool(DictHas(loaded.value, label)), saved.file,
                    loaded.io \o saved.io)

delete_snapshot(file, label) ==
    LET loaded == load_vault(file)
        saved == save_vault(DictDel(loaded.value, label))
    IN  IF loaded.raised # NoException THEN Raise(loaded.raised, file, loaded.io)
        ELSE IF DictHas(loaded.value, label)
        THEN Return(PyBool(TRUE), saved.file, loaded.io \o saved.io)
        ELSE Return(PyBool(FALSE), file, loaded.io)

-----------------------------------------------------------------------------
(* The state machine: one action per call of the service API, and the      *)
(* edits of the vault file made from outside the program.                  *)

\* the label was never saved since the file was last edited from outside
NotSaved == [saved |-> FALSE, deleted |-> FALSE, text |-> <<>>, algorithm |-> NoAlgorithm]
\* the label's record was deleted, and the label not saved since
Deleted == [saved |-> FALSE, deleted |-> TRUE, text |-> <<>>, algorithm |-> NoAlgorithm]
\* the label's record comes from save_hash(label, text, algorithm)
Saved(text, algorithm) ==
    [saved |-> TRUE, deleted |-> FALSE, text |-> text, algorithm |-> algorithm]

NoSaves == [l \in Labels |-> NotSaved]

\* the processes that run save_hash at the same time on one vault file
Procs == {1, 2}

\* a process that has not called save_hash
IdleProc ==
    [pc |-> "idle", label |-> "", text |-> <<>>, algorithm |-> NoAlgorithm,
     vault |-> <<>>, entry |-> None, raised |-> NoException]

NoCalls == [p \in Procs |-> IdleProc]

\* no save_vault has completed
NoPersist == [by |-> 0, doc |-> NoFile]

NoCallStarted ==
    /\ ret = [op |-> "init", args |-> NoArgs, raised |-> NoException, value |-> None]
    /\ io = <<>>
    /\ lastSave = NoSaves

Init ==
    /\ vaultFile = NoFile
    /\ NoCallStarted
    /\ procs = NoCalls
    /\ persisted = NoPersist

\* the call `op` with `args` ends as `r` says
Called(op, args, r) ==
    /\ vaultFile' = r.file
    /\ ret' = [op |-> op, args |-> args, raised |-> r.raised, value |-> r.value]
    /\ io' = r.io
    /\ UNCHANGED <<procs, persisted>>

SaveHash ==
    \E label \in Labels, text \in SaveTexts, algorithm \in SaveAlgorithmInputs,
       now \in Times :
        LET r == save_hash(vaultFile, label, text, algorithm, now)
        IN  /\ Called("save_hash",
                      [label |-> label, text |-> text, algorithm |-> algorithm,
                       replacing |-> (/\ lastSave[label].saved
                                      /\ lastSave[label].text # text)], r)
            /\ lastSave' = IF r.raised = NoException
                           THEN [lastSave EXCEPT ![label] = Saved(text, algorithm)]
                           ELSE lastSave

VerifyText ==
    \E label \in Labels, text \in Texts :
        /\ Called("verify_text", [label |-> label, text |-> text],
                  verify_text(vaultFile, label, text))
        /\ UNCHANGED lastSave

CompareIn(T1, T2, A) ==
    \E text1 \in T1, text2 \in T2, algorithm \in A :
        /\ Called("compare_texts",
                  [text1 |-> text1, text2 |-> text2, algorithm |-> algorithm],
                  compare_texts(vaultFile, text1, text2, algorithm))
        /\ UNCHANGED lastSave

ComputeHashIn(T, A) ==
    \E text \in T, algorithm \in A :
        LET h == compute_hash(text, algorithm)
        IN  /\ Called("compute_hash", [text |-> text, algorithm |-> algorithm],
                      [raised |-> h.raised, value |-> h.value,
                       file |-> vaultFile, io |-> <<>>])
            /\ UNCHANGED lastSave

ComputeHash == ComputeHashIn(CompareTexts1, SaveAlgorithmInputs)

CompareTexts == CompareIn(CompareTexts1, Texts, CompareAlgorithmInputs)

ListSnapshots ==
    /\ Called("list_snapshots", NoArgs, list_snapshots(vaultFile))
    /\ UNCHANGED lastSave

DeleteSnapshot ==
    \E label \in Labels :
        LET r == delete_snapshot(vaultFile, label)
        IN  /\ Called("delete_snapshot", [label |-> label], r)
            /\ lastSave' = IF r.raised = NoException /\ r.value = PyBool(TRUE)
                           THEN [lastSave EXCEPT ![label] = Deleted]
                           ELSE lastSave

\* the file is edited from outside into something json.load rejects
ExternalCorrupt ==
    /\ vaultFile.kind # "garbage"
    /\ vaultFile' = Garbage
    /\ ret' = [op |-> "external", args |-> NoArgs, raised |-> NoException, value |-> None]
    /\ io' = <<>>
    /\ lastSave' = NoSaves
    /\ UNCHANGED <<procs, persisted>>

\* the file is removed from outside
ExternalRemove ==
    /\ vaultFile.kind # "absent"
    /\ vaultFile' = NoFile
    /\ ret' = [op |-> "external", args |-> NoArgs, raised |-> NoException, value |-> None]
    /\ io' = <<>>
    /\ lastSave' = NoSaves
    /\ UNCHANGED <<procs, persisted>>

Next ==
    \/ ComputeHash
    \/ SaveHash
    \/ VerifyText
    \/ CompareTexts
    \/ ListSnapshots
    \/ DeleteSnapshot
    \/ ExternalCorrupt
    \/ ExternalRemove

Spec == Init /\ [][Next]_vars

(* The digest engine alone: the stateless calls over longer texts *)

ComputeDigestHash == ComputeHashIn(DigestTexts, AlgorithmInputs)
ComputeAllHashes ==
    \E text \in DigestTexts :
        /\ Called("compute_all_hashes", [text |-> text],
                  Return(PyDict(compute_all_hashes(text)), vaultFile, <<>>))
        /\ UNCHANGED lastSave

CompareDigestTexts == CompareIn(DigestTexts, DigestTexts, AlgorithmInputs)

NextDigest ==
    \/ ComputeDigestHash
    \/ ComputeAllHashes
    \/ CompareDigestTexts

SpecDigest == Init /\ [][NextDigest]_vars

-----------------------------------------------------------------------------
(* Two processes calling save_hash on the same vault file, one file-system *)
(* call at a time.  save_vault is open(VAULT_FILE, "w"), which empties the *)
(* file at once, and json.dump followed by the close of the file, which    *)
(* writes the buffered document at offset 0 of whatever the file then      *)
(* holds.                                                                  *)

\* the file just after open(VAULT_FILE, "w"): zero bytes
Truncated == [kind |-> "empty"]

RECURSIVE JsonItemsSize(_)
\* characters json.dump(..., indent=2) writes for the items of a vault
JsonItemsSize(vault) ==
    IF vault = <<>> THEN 0
    ELSE LET e == Head(vault).value
         IN  128 + 2 * Len(e.label) + Len(e.algorithm) + e.hash.hexlen
             + JsonItemsSize(Tail(vault))

\* characters of the whole document json.dump(vault, f, indent=2) writes
JsonSize(vault) ==
    IF vault = <<>> THEN 2
    ELSE 4 + JsonItemsSize(vault) + 2 * (Len(vault) - 1)

\* bytes the file holds
FileSize(file) ==
    IF file.kind = "json" THEN JsonSize(file.obj)
    ELSE IF file.kind = "torn" THEN file.size
    ELSE 0

\* the file after the document of `vault` is written at offset 0 and the file
\* closed: a longer content already there keeps its tail after the document
WrittenOver(file, vault) ==
    IF FileSize(file) <= JsonSize(vault)
    THEN json_dump(vault)
    ELSE [kind |-> "torn", head |-> vault, size |-> FileSize(file)]

RaceLabels == {"doc", "memo"}
RaceTexts == {<<233>>}
RaceAlgorithms == {"md5", "sha512", "fakehash"}

\* the vault file the two calls find: none, or one snapshot saved earlier
RaceStores == {NoFile, save_hash(NoFile, "doc", <<>>, "sha256", 0).file}

InitRace ==
    /\ vaultFile \in RaceStores
    /\ NoCallStarted
    /\ procs = NoCalls
    /\ persisted = NoPersist

\* process p calls save_hash(label, text, algorithm)
CallSaveHash(p) ==
    /\ procs[p].pc = "idle"
    /\ \E label \in RaceLabels, text \in RaceTexts, algorithm \in RaceAlgorithms :
         procs' = [procs EXCEPT ![p].pc = "exists", ![p].label = label,
                                ![p].text = text, ![p].algorithm = algorithm]
    /\ UNCHANGED <<vaultFile, persisted>>

\* load_vault: Path(VAULT_FILE).exists()
LoadVaultExists(p) ==
    /\ procs[p].pc = "exists"
    /\ procs' = [procs EXCEPT ![p].pc = IF vaultFile.kind # "absent"
                                        THEN "read" ELSE "hash"]
    /\ UNCHANGED <<vaultFile, persisted>>

\* load_vault: open(VAULT_FILE, "r") and json.load
LoadVaultRead(p) ==
    /\ procs[p].pc = "read"
    /\ LET parsed == json_load(vaultFile)
       IN  procs' = IF parsed.raised # NoException
                    THEN [procs EXCEPT ![p].pc = "raised", ![p].raised = parsed.raised]
                    ELSE [procs EXCEPT ![p].pc = "hash", ![p].vault = parsed.value]
    /\ UNCHANGED <<vaultFile, persisted>>

\* save_hash: the entry is built and put into the loaded vault
BuildEntry(p) ==
    /\ procs[p].pc = "hash"
    /\ \E now \in Times :
         LET me == procs[p]
             hashed == compute_hash(me.text, me.algorithm)
             entry == [label |-> me.label,
                       algorithm |-> me.algorithm,
                       hash |-> hashed.value,
                       length |-> Len(me.text),
                       timestamp |-> now]
         IN  procs' = IF hashed.raised # NoException
                      THEN [procs EXCEPT ![p].pc = "raised",
                                         ![p].raised = hashed.raised]
                      ELSE [procs EXCEPT ![p].pc = "open",
                                         ![p].entry = entry,
                                         ![p].vault = DictSet(me.vault, me.label, entry)]
    /\ UNCHANGED <<vaultFile, persisted>>

\* save_vault: open(VAULT_FILE, "w")
SaveVaultOpen(p) ==
    /\ procs[p].pc = "open"
    /\ vaultFile' = Truncated
    /\ procs' = [procs EXCEPT ![p].pc = "dump"]
    /\ UNCHANGED persisted

\* save_vault: json.dump and the close of the file; save_hash returns the entry
SaveVaultDump(p) ==
    /\ procs[p].pc = "dump"
    /\ vaultFile' = WrittenOver(vaultFile, procs[p].vault)
    /\ procs' = [procs EXCEPT ![p].pc = "done"]
    /\ persisted' = [by |-> p, doc |-> json_dump(procs[p].vault)]

\* save_vault: the write fails (no space left, process killed) after the open
SaveVaultFails(p) ==
    /\ procs[p].pc = "dump"
    /\ procs' = [procs EXCEPT ![p].pc = "raised", ![p].raised = "OSError"]
    /\ UNCHANGED <<vaultFile, persisted>>

NextRace ==
    \/ \E p \in Procs : CallSaveHash(p) /\ UNCHANGED <<ret, io, lastSave>>
    \/ \E p \in Procs : LoadVaultExists(p) /\ UNCHANGED <<ret, io, lastSave>>
    \/ \E p \in Procs : LoadVaultRead(p) /\ UNCHANGED <<ret, io, lastSave>>
    \/ \E p \in Procs : BuildEntry(p) /\ UNCHANGED <<ret, io, lastSave>>
    \/ \E p \in Procs : SaveVaultOpen(p) /\ UNCHANGED <<ret, io, lastSave>>
    \/ \E p \in Procs : SaveVaultDump(p) /\ UNCHANGED <<ret, io, lastSave>>
    \/ \E p \in Procs : SaveVaultFails(p) /\ UNCHANGED <<ret, io, lastSave>>

SpecRace == InitRace /\ [][NextRace]_vars

-----------------------------------------------------------------------------
(* Properties *)

\* the labels that are keys of the store; none when no file exists
StoreKeys == IF vaultFile.kind = "json" THEN DictKeys(vaultFile.obj) ELSE {}

\* the file is absent or parses
StoreLoads == vaultFile.kind # "garbage"

Returned(op) == ret.op = op /\ ret.raised = NoException

\* C1: once save_hash(label, t, a) has succeeded, and whatever saves and
\* deletes of other labels have followed, verify_text(label, t) returns
\* status INTACT with is_intact true.
C1_VerifySavedTextIntact ==
    (/\ ret.op = "verify_text"
     /\ lastSave[ret.args.label].saved
     /\ lastSave[ret.args.label].text = ret.args.text)
    => (/\ ret.raised = NoException
        /\ ret.value.status = "INTACT"
        /\ ret.value.is_intact = TRUE)

\* an INTACT verification of the first-saved label, with another label saved after it
C1_Witness ==
    /\ Returned("verify_text")
    /\ ret.value.status = "INTACT"
    /\ Len(vaultFile.obj) = 2
    /\ vaultFile.obj[1].key = ret.args.label
    /\ ret.value.algorithm = "sha1"

\* C2: once save_hash(label, t, a) has succeeded, and the label has been
\* neither saved again nor deleted, verify_text(label, t2) with t2 # t returns
\* status MODIFIED with is_intact false and current_hash # original_hash.
C2_VerifyOtherTextModified ==
    (/\ ret.op = "verify_text"
     /\ lastSave[ret.args.label].saved
     /\ lastSave[ret.args.label].text # ret.args.text)
    => (/\ ret.raised = NoException
        /\ ret.value.status = "MODIFIED"
        /\ ret.value.is_intact = FALSE
        /\ ret.value.current_hash # ret.value.original_hash)

\* a MODIFIED verification where one character was changed, the length kept
C2_Witness ==
    /\ Returned("verify_text")
    /\ ret.value.status = "MODIFIED"
    /\ ret.value.original_length = 1
    /\ ret.value.current_length = 1

\* C3: when the file is absent or parses, verify_text(label, text) of a
\* label that is not a key of the store returns status NOT_FOUND, and raises
\* nothing, whatever the text.
C3_VerifyAbsentLabelNotFound ==
    (/\ ret.op = "verify_text"
     /\ StoreLoads
     /\ ret.args.label \notin StoreKeys)
    => (/\ ret.raised = NoException
        /\ ret.value.status = "NOT_FOUND")

\* NOT_FOUND returned while no file exists
C3_Witness ==
    /\ Returned("verify_text")
    /\ ret.value.status = "NOT_FOUND"
    /\ vaultFile.kind = "absent"
    /\ ret.args.text # <<>>

\* C4: delete_snapshot(label) of a label that is a key of the store returns
\* true, and from then until the next save_hash of that label every
\* verify_text(label, text) returns status NOT_FOUND.
C4_DeleteOfKeyReturnsTrue ==
    (/\ ret'.op = "delete_snapshot"
     /\ ret'.args.label \in StoreKeys)
    => (/\ ret'.raised = NoException
        /\ ret'.value = PyBool(TRUE)
        /\ lastSave'[ret'.args.label].deleted)

C4_VerifyAfterDeleteNotFound ==
    (/\ ret.op = "verify_text"
     /\ lastSave[ret.args.label].deleted)
    => (/\ ret.raised = NoException
        /\ ret.value.status = "NOT_FOUND")

C4_DeleteThenNotFound ==
    [][C4_DeleteOfKeyReturnsTrue]_vars /\ []C4_VerifyAfterDeleteNotFound

\* NOT_FOUND for a deleted label while the other label's record is still stored
C4_Witness ==
    /\ Returned("verify_text")
    /\ lastSave[ret.args.label].deleted
    /\ ret.value.status = "NOT_FOUND"
    /\ StoreKeys = Labels \ {ret.args.label}

\* C5: delete_snapshot(label) of a label that is not a key of the store (the
\* file absent or parsing) returns false and leaves the file untouched: it is
\* not opened for writing, its content is what it was, and an absent file
\* stays absent.
C5_DeleteOfAbsentLabel ==
    (/\ ret'.op = "delete_snapshot"
     /\ StoreLoads
     /\ ret'.args.label \notin StoreKeys)
    => (/\ ret'.raised = NoException
        /\ ret'.value = PyBool(FALSE)
        /\ vaultFile' = vaultFile
        /\ \A i \in DOMAIN io' : io'[i] # "open_w")

C5_DeleteOfAbsentLabelIsNoOp == [][C5_DeleteOfAbsentLabel]_vars

\* false returned, and still no file
C5_Witness ==
    /\ Returned("delete_snapshot")
    /\ ret.value = PyBool(FALSE)
    /\ vaultFile.kind = "absent"

\* C6: a save under an existing label replaces the record: list_snapshots
\* returns as many records as there are labels saved and not deleted since,
\* and after a save of a label only the text just saved verifies as INTACT,
\* every other text as MODIFIED.
C6_LatestSaveWins ==
    /\ Returned("list_snapshots")
        => Len(ret.value.list) = Cardinality({l \in Labels : lastSave[l].saved})
    /\ Returned("save_hash")
        => /\ Len(list_snapshots(vaultFile).value.list)
                = Cardinality({l \in Labels : lastSave[l].saved})
           /\ \A t \in Texts :
                LET v == verify_text(vaultFile, ret.args.label, t)
                IN  /\ v.raised = NoException
                    /\ v.value.status = IF t = ret.args.text THEN "INTACT" ELSE "MODIFIED"

\* a save that replaced the record of a different text, beside another label
C6_Witness ==
    /\ Returned("save_hash")
    /\ ret.args.replacing
    /\ StoreKeys = Labels

\* C7: verify_text hashes the current text with the algorithm of the label's
\* record: the result's algorithm is the one the label was saved with,
\* current_hash is compute_hash of the current text under it, original_length
\* and current_length are the character counts of the saved and the current text.
C7_VerifyUsesStoredAlgorithm ==
    (/\ ret.op = "verify_text"
     /\ lastSave[ret.args.label].saved)
    => (/\ ret.raised = NoException
        /\ ret.value.algorithm = lastSave[ret.args.label].algorithm
        /\ ret.value.current_hash
             = compute_hash(ret.args.text, lastSave[ret.args.label].algorithm).value
        /\ ret.value.original_length = Len(lastSave[ret.args.label].text)
        /\ ret.value.current_length = Len(ret.args.text))

\* a verification under md5 of a 1-character text against the 2-byte
\* character saved, while the other label holds a sha512 record
C7_Witness ==
    /\ Returned("verify_text")
    /\ lastSave[ret.args.label].saved
    /\ ret.value.algorithm = "md5"
    /\ ret.value.original_length = 1
    /\ ret.args.text = <<97>>
    /\ \E l \in Labels : lastSave[l].saved /\ lastSave[l].algorithm = "sha512"

\* C8: compare_texts does not touch the store: it makes no file-system call,
\* the file is what it was, and what it raises or returns is what it raises
\* or returns when no file exists, be the file absent, parsable or not.
C8_WithoutFile ==
    compare_texts(NoFile, ret'.args.text1, ret'.args.text2, ret'.args.algorithm)

C8_CompareStep ==
    ret'.op = "compare_texts"
    => (/\ vaultFile' = vaultFile
        /\ io' = <<>>
        /\ ret'.raised = C8_WithoutFile.raised
        /\ ret'.value = C8_WithoutFile.value)

C8_CompareNeverTouchesStore == [][C8_CompareStep]_vars

\* a comparison returned while the file does not parse
C8_Witness ==
    /\ Returned("compare_texts")
    /\ vaultFile.kind = "garbage"
    /\ ret.value.identical = FALSE

\* C9: for an algorithm of the set, compare_texts returns identical true and
\* equal hashes for equal texts, identical false and different hashes for
\* different texts; identical is the equality of the two hashes.
C9_CompareIdenticalIffSameText ==
    (/\ ret.op = "compare_texts"
     /\ ret.args.algorithm \in AlgorithmSet)
    => (/\ ret.raised = NoException
        /\ ret.value.identical = (ret.args.text1 = ret.args.text2)
        /\ ret.value.identical = (ret.value.hash_1 = ret.value.hash_2))

\* two texts of two characters that differ in the last one only
C9_Witness ==
    /\ Returned("compare_texts")
    /\ ret.value.identical = FALSE
    /\ Len(ret.args.text1) = 2
    /\ Len(ret.args.text2) = 2
    /\ Head(ret.args.text1) = Head(ret.args.text2)

\* C10, as claimed: compute_hash, save_hash and compare_texts raise ValueError
\* (UnsupportedAlgorithm) exactly when the algorithm is outside the set.
C10_UnsupportedIffOutsideSet ==
    ret.op \in {"compute_hash", "save_hash", "compare_texts"}
    => ((ret.raised = "ValueError") <=> (ret.args.algorithm \notin AlgorithmSet))

\* C10, amended: compute_hash and compare_texts raise ValueError exactly when
\* the algorithm is outside the set; so does save_hash when the file is absent
\* or parses; when the file does not parse save_hash, which loads the vault
\* first, raises JSONDecodeError (CorruptStore) whatever the algorithm.
C10_UnsupportedUnlessCorrupt ==
    /\ ret.op \in {"compute_hash", "compare_texts"}
        => ((ret.raised = "ValueError") <=> (ret.args.algorithm \notin AlgorithmSet))
    /\ ret.op = "save_hash"
        => IF StoreLoads
           THEN (ret.raised = "ValueError") <=> (ret.args.algorithm \notin AlgorithmSet)
           ELSE ret.raised = "JSONDecodeError"

\* save_hash with an unsupported algorithm on a file that does not parse
C10_Witness ==
    /\ ret.op = "save_hash"
    /\ ret.args.algorithm \notin AlgorithmSet
    /\ ~StoreLoads
    /\ ret.raised = "JSONDecodeError"

-----------------------------------------------------------------------------
LoadingOps == {"save_hash", "verify_text", "list_snapshots", "delete_snapshot"}

C11_CorruptStep ==
    (vaultFile.kind = "garbage" /\ ret'.op # "external")
    => (/\ vaultFile' = vaultFile
        /\ \A i \in DOMAIN io' : io'[i] # "open_w"
        /\ ret'.op \in LoadingOps => ret'.raised = "JSONDecodeError")

(* C11: while the vault file exists and cannot be parsed, every save_hash, *)
(* verify_text, list_snapshots and delete_snapshot raises JSONDecodeError  *)
(* to its caller, and no operation of the program repairs the file: it is  *)
(* left exactly as it was (never opened for writing), so it stays          *)
(* unparsable until something outside the program replaces it.             *)
C11_CorruptStoreStaysCorrupt == [][C11_CorruptStep]_vars

C11_Witness ==
    /\ vaultFile.kind = "garbage"
    /\ ret.op = "save_hash"
    /\ ret.args.algorithm \in AlgorithmSet
    /\ ret.raised = "JSONDecodeError"
    /\ io = <<"exists", "open_r">>

-----------------------------------------------------------------------------
StoreItems == IF vaultFile.kind = "json" THEN vaultFile.obj ELSE <<>>

(* C14: in every state reached from the empty store by save_hash and       *)
(* delete_snapshot, every stored record has an algorithm of the supported  *)
(* set, the hash compute_hash gives for the text of the latest save of its *)
(* label under that algorithm, and the character count of that text as its *)
(* length; and no label has more than one record.                          *)
C14_RecordsWellFormed ==
    /\ \A i \in DOMAIN StoreItems :
         LET r == StoreItems[i].value
             t == lastSave[r.label].text
         IN  /\ lastSave[r.label].saved
             /\ r.algorithm \in AlgorithmSet
             /\ r.hash = compute_hash(t, r.algorithm).value
             /\ r.length = Len(t)
    /\ \A i, j \in DOMAIN StoreItems :
         (\/ StoreItems[i].key = StoreItems[j].key
          \/ StoreItems[i].value.label = StoreItems[j].value.label) => i = j

C14_Witness ==
    /\ Cardinality(StoreKeys) = 2
    /\ ret.op = "save_hash"
    /\ ret.raised = NoException
    /\ ret.args.replacing
    /\ ret.args.text = <<233>>
    /\ \E l \in Labels : lastSave[l].deleted = FALSE /\ lastSave[l].text = <<>>

-----------------------------------------------------------------------------
NotFoundReturned == Returned("verify_text") /\ ret.value.status = "NOT_FOUND"

(* C15: a NOT_FOUND result of verify_text has a label field equal to the   *)
(* requested label and a message, and besides its status nothing else: no  *)
(* algorithm, hash, length or is_intact field.                             *)
C15_NotFoundCarriesLabelField ==
    NotFoundReturned
    => (/\ DOMAIN ret.value = {"status", "label", "message"}
        /\ ret.value.label = ret.args.label)

(* C15, as the code has it: a NOT_FOUND result of verify_text is exactly a *)
(* status and a message naming the requested label; it has no label field  *)
(* and no algorithm, hash, length or is_intact field, and it is the same   *)
(* whatever the text, which is not hashed.                                 *)
C15_NotFoundIsStatusAndMessage ==
    NotFoundReturned
    => (/\ DOMAIN ret.value = {"status", "message"}
        /\ ret.value = [status |-> "NOT_FOUND",
                        message |-> <<"No snapshot found for label", ret.args.label>>])

C15_Witness ==
    /\ NotFoundReturned
    /\ StoreKeys # {}
    /\ ret.args.label \notin StoreKeys
    /\ ret.args.text # <<>>

-----------------------------------------------------------------------------
(* C16: no state reached through save_hash holds a record whose key or     *)
(* whose label field is the empty string.                                  *)
C16_NoEmptyLabel ==
    \A i \in DOMAIN StoreItems :
        StoreItems[i].key # "" /\ StoreItems[i].value.label # ""

-----------------------------------------------------------------------------
NeverOpenedForWriting(calls) == \A i \in DOMAIN calls : calls[i] # "open_w"

C17_FailedSaveStep ==
    (ret'.op = "save_hash" /\ ret'.raised = "ValueError")
    => (/\ vaultFile' = vaultFile
        /\ NeverOpenedForWriting(io')
        /\ \A l \in Labels :
             lastSave[l].saved
             => (/\ l \in DictKeys(vaultFile'.obj)
                 /\ verify_text(vaultFile', l, lastSave[l].text).value.status
                        = "INTACT"))

(* C17: a save_hash call that raises ValueError for its algorithm leaves   *)
(* the store as it was: the file content is the same, an absent file is    *)
(* not created (the file is never opened for writing), and every record    *)
(* saved before, the one under the call's label included, is still there   *)
(* and still verifies INTACT against its text.                             *)
C17_FailedSaveLeavesStore == [][C17_FailedSaveStep]_vars

C17_Witness ==
    /\ ret.op = "save_hash"
    /\ ret.raised = "ValueError"
    /\ lastSave[ret.args.label].saved
    /\ ret.args.text # lastSave[ret.args.label].text
    /\ ret.args.label \in StoreKeys

-----------------------------------------------------------------------------
\* the mapping a file holds: an absent file is the empty mapping
MappingOf(file) == IF file.kind = "json" THEN file.obj ELSE <<>>

C18_FrameStep ==
    ret'.op \in {"save_hash", "delete_snapshot"}
    => \A other \in Labels \ {ret'.args.label} :
         /\ DictHas(MappingOf(vaultFile'), other) = DictHas(MappingOf(vaultFile), other)
         /\ DictHas(MappingOf(vaultFile), other)
            => DictGet(MappingOf(vaultFile'), other) = DictGet(MappingOf(vaultFile), other)

(* C18: a save_hash(label, ...) or delete_snapshot(label) step changes the *)
(* entry of that label only: every other label is a key afterwards exactly *)
(* if it was one before, and its record, timestamp included, is the same   *)
(* record.                                                                 *)
C18_OtherLabelsUntouched == [][C18_FrameStep]_vars

C18_Witness ==
    /\ Returned("delete_snapshot")
    /\ ret.value = PyBool(TRUE)
    /\ \E other \in StoreKeys :
         /\ other # ret.args.label
         /\ DictGet(StoreItems, other).timestamp = MaxTime
         /\ DictGet(StoreItems, other).length > 0

-----------------------------------------------------------------------------
C19_ReadOnlyStep ==
    ret'.op \in {"verify_text", "list_snapshots"}
    => (/\ vaultFile' = vaultFile
        /\ NeverOpenedForWriting(io'))

(* C19: a verify_text or list_snapshots step never modifies the vault      *)
(* file, whatever it returns or raises: the file content is the same       *)
(* before and after, and an absent file is not created (the file is never  *)
(* opened for writing).                                                    *)
C19_ReadsNeverWrite == [][C19_ReadOnlyStep]_vars

C19_Witness ==
    /\ Returned("list_snapshots")
    /\ ret.value = PyList(<<>>)
    /\ vaultFile.kind = "absent"
    /\ io = <<"exists">>

-----------------------------------------------------------------------------
(* C20: in every state reached from the empty store by save_hash and       *)
(* delete_snapshot, the record stored under a key has that key as its      *)
(* label field, and the record a save_hash call returned is exactly the    *)
(* record stored under its label.                                          *)
C20_KeyIsLabelAndReturnIsStored ==
    /\ \A i \in DOMAIN StoreItems : StoreItems[i].value.label = StoreItems[i].key
    /\ Returned("save_hash")
       => (/\ ret.args.label \in StoreKeys
           /\ DictGet(StoreItems, ret.args.label) = ret.value
           /\ ret.value.label = ret.args.label)

C20_Witness ==
    /\ Returned("save_hash")
    /\ ret.args.replacing
    /\ ret.value.timestamp = MaxTime
    /\ StoreKeys = Labels

-----------------------------------------------------------------------------
BothReturned == \A p \in Procs : procs[p].pc = "done"

(* C12: when two processes run save_hash on different labels at the same   *)
(* time and both return, the file holds exactly the document written by    *)
(* the process whose save_vault completed last (possibly without the       *)
(* other's record), and never anything else, such as a mix of the two      *)
(* documents.                                                              *)
C12_LastWriterWins ==
    (BothReturned /\ procs[1].label # procs[2].label)
    => vaultFile = persisted.doc

(* C13: no load_vault ever finds the file in a state other than a complete *)
(* document, the one before a save_vault or the one it writes: a load that *)
(* runs while another process is inside save_vault, or after a save_vault  *)
(* that failed part-way, never finds it empty, truncated or unparsable.    *)
C13_LoadNeverSeesPartialFile ==
    \A p \in Procs : procs[p].raised # "JSONDecodeError"

=============================================================================
